---- MODULE Spec2Model ----
(***************************************************************************)
(* Model of scripts/results_verification.py: the verification gate run on  *)
(* one twister JSON report before it is published.                         *)
(*                                                                         *)
(* The inputs of a run (the report file, the command line, the remote      *)
(* daily-version index) are chosen in Init.  main is a state machine with  *)
(* one action per gate; the check_* functions are operators computed the   *)
(* way the code computes them.                                             *)
(***************************************************************************)
EXTENDS Integers, Sequences, FiniteSets, TLC

VARIABLES
    file,       \* the report on disk: exists, size (bytes), parseOk, content
    args,       \* parsed command line: path (stem, suffix), zephyr, max_size
    remote,     \* the daily index: fetchOk, ver_data (oldest first)
    pc,         \* position of main
    report,     \* main's local `report`: << >> before json.load, <<r>> after
    out,        \* lines printed to standard output by this run
    exit,       \* how the process ended ("none" while running)
    evaluated,  \* the gates evaluated by this run, in order
    verRes,     \* what check_version_exists returned in this run (<< >> if not called)
    nameRes,    \* what check_name returned in this run (<< >> if not called)
    sizeRes,    \* what check_file_size returned in this run (<< >> if not called)
    fetches,    \* number of HTTP GETs issued by this run
    run,        \* which invocation of the script this is
    first       \* outcome of the first invocation (<< >> until it ended)

vars == <<file, args, remote, pc, report, out, exit, evaluated,
          verRes, nameRes, sizeRes, fetches, run, first>>

inputs == <<file, args, remote>>

---------------------------------------------------------------------------
(* Bounds of the model *)

MaxSuites == 2      \* longest testsuite list of a report
MaxIndex  == 2      \* longest daily-version index
MaxRuns   == 2      \* invocations of the script on the same inputs

(* Program constants *)

Kibi == 1024        \* the divisor of `/ 1024 / 1024`

---------------------------------------------------------------------------
(* Exact arithmetic.  Python's `/` is true division; every value below is  *)
(* an integer or a dyadic fraction far below 2^53, so float division by    *)
(* 1024 and float comparison are exact and a fraction n/d (d > 0) models   *)
(* them faithfully.                                                        *)

Rat(n, d) == [n |-> n, d |-> d]

TrueDiv(r, k) == [n |-> r.n, d |-> r.d * k]

LessEq(a, b) == a.n * b.d <= b.n * a.d

BoolAsNumber(b) == IF b THEN Rat(1, 1) ELSE Rat(0, 1)

Truthy(r) == r.n # 0

---------------------------------------------------------------------------
(* Printed lines.  A line is the format string together with the values    *)
(* substituted into it.                                                    *)

NoPath  == [stem |-> "", suffix |-> ""]
NoLimit == Rat(0, 1)

Line(msg, path, platform, name, required, limit) ==
    [msg |-> msg, path |-> path, platform |-> platform, name |-> name,
     required |-> required, limit |-> limit]

MsgNotFound  == "JSON report not found at {file_path}"
MsgNotJson   == "Not a JSON file given"
MsgNotListed == "Given version of zephyr is not on the daily list"
MsgName      == "Report name does not match the platform name given in the report"
MsgVersion   == "Incorrect version of zephyr"
MsgSize      == "Size of the JSON report at {file_path} is >{args.max_size} Mb"
MsgPlatform  == "Platform {ts['platform']} from {ts['name']} doesn't match the required one: {platform_name}"
MsgVersionNotFound == "Version not found."
MsgVerified  == "Report {args.path} verified."

PlainLine(msg) == Line(msg, NoPath, "", "", "", NoLimit)

---------------------------------------------------------------------------
(* check_version_exists *)

\* for entry in reversed(ver_data): entry['version'] on a str raises
\* TypeError, which the except clause turns into `return False`.
RECURSIVE ScanVersions(_, _, _, _)
ScanVersions(ver_data, i, zephyr, examined) ==
    IF i = 0
    THEN [ret |-> FALSE, raised |-> "none", caught |-> FALSE, examined |-> examined]
    ELSE IF ver_data[i].kind # "dict"
    THEN [ret |-> FALSE, raised |-> "none", caught |-> TRUE, examined |-> examined + 1]
    ELSE IF zephyr = ver_data[i].value
    THEN [ret |-> TRUE, raised |-> "none", caught |-> FALSE, examined |-> examined + 1]
    ELSE ScanVersions(ver_data, i - 1, zephyr, examined + 1)

\* A scan that steps over entries that are not mappings.
RECURSIVE ScanVersionsSkipping(_, _, _, _)
ScanVersionsSkipping(ver_data, i, zephyr, examined) ==
    IF i = 0
    THEN [ret |-> FALSE, raised |-> "none", caught |-> FALSE, examined |-> examined]
    ELSE IF ver_data[i].kind = "dict" /\ zephyr = ver_data[i].value
    THEN [ret |-> TRUE, raised |-> "none", caught |-> FALSE, examined |-> examined + 1]
    ELSE ScanVersionsSkipping(ver_data, i - 1, zephyr, examined + 1)

check_version_exists_skipping(zephyr, rem) ==
    IF ~rem.fetchOk
    THEN [ret |-> FALSE, raised |-> "URLError", caught |-> FALSE, examined |-> 0]
    ELSE ScanVersionsSkipping(rem.ver_data, Len(rem.ver_data), zephyr, 0)

\* A scan that compares the entry itself when it is a bare string.
RECURSIVE ScanVersionsAnyShape(_, _, _, _)
ScanVersionsAnyShape(ver_data, i, zephyr, examined) ==
    IF i = 0
    THEN [ret |-> FALSE, raised |-> "none", caught |-> FALSE, examined |-> examined]
    ELSE IF zephyr = ver_data[i].value
    THEN [ret |-> TRUE, raised |-> "none", caught |-> FALSE, examined |-> examined + 1]
    ELSE IF ver_data[i].kind # "dict"
    THEN [ret |-> FALSE, raised |-> "none", caught |-> TRUE, examined |-> examined + 1]
    ELSE ScanVersionsAnyShape(ver_data, i - 1, zephyr, examined + 1)

check_version_exists_any_shape(zephyr, rem) ==
    IF ~rem.fetchOk
    THEN [ret |-> FALSE, raised |-> "URLError", caught |-> FALSE, examined |-> 0]
    ELSE ScanVersionsAnyShape(rem.ver_data, Len(rem.ver_data), zephyr, 0)

\* urlopen/read/json.loads faults are not TypeError and propagate.
check_version_exists(zephyr, rem) ==
    IF ~rem.fetchOk
    THEN [ret |-> FALSE, raised |-> "URLError", caught |-> FALSE, examined |-> 0]
    ELSE ScanVersions(rem.ver_data, Len(rem.ver_data), zephyr, 0)

---------------------------------------------------------------------------
(* check_file_size *)

check_file_size_strict(f, max_size) ==
    LET file_size == TrueDiv(TrueDiv(Rat(f.size, 1), Kibi), Kibi)
    IN  LessEq(file_size, max_size) /\ ~LessEq(max_size, file_size)

check_file_size(f, max_size) ==
    LET file_size == TrueDiv(TrueDiv(Rat(f.size, 1), Kibi), Kibi)
    IN  LessEq(file_size, max_size)

---------------------------------------------------------------------------
(* check_name *)

PlatformLine(ts, platform_name) ==
    Line(MsgPlatform, NoPath, ts.platform, ts.name, platform_name, NoLimit)

\* the for loop: count and print every suite whose platform differs
RECURSIVE ScanSuites(_, _, _, _)
ScanSuites(testsuites, i, platform_name, acc) ==
    IF i > Len(testsuites)
    THEN acc
    ELSE ScanSuites(testsuites, i + 1, platform_name,
            IF testsuites[i].platform # platform_name
            THEN [err_cnt |-> acc.err_cnt + 1,
                  out |-> Append(acc.out, PlatformLine(testsuites[i], platform_name))]
            ELSE acc)

\* A scan that stops at the first mismatching suite.
check_name_first_only(platform_name, rep) ==
    LET bad == {i \in 1..Len(rep.testsuites) : rep.testsuites[i].platform # platform_name}
        i0  == CHOOSE i \in bad : \A j \in bad : i <= j
    IN  IF bad = {}
        THEN [ret |-> TRUE, out |-> << >>, err_cnt |-> 0, report |-> rep]
        ELSE [ret |-> FALSE, out |-> <<PlatformLine(rep.testsuites[i0], platform_name)>>,
              err_cnt |-> 1, report |-> rep]

\* A scan that requires at least one suite to have been looked at.
check_name_needs_suite(platform_name, rep) ==
    LET s == ScanSuites(rep.testsuites, 1, platform_name, [err_cnt |-> 0, out |-> << >>])
    IN  [ret |-> Len(rep.testsuites) > 0 /\ s.err_cnt = 0, out |-> s.out,
         err_cnt |-> s.err_cnt, report |-> rep]

\* A scan that consumes the testsuite list of the report it is given.
check_name_consuming(platform_name, rep) ==
    LET s == ScanSuites(rep.testsuites, 1, platform_name, [err_cnt |-> 0, out |-> << >>])
    IN  [ret |-> s.err_cnt = 0, out |-> s.out, err_cnt |-> s.err_cnt,
         report |-> [rep EXCEPT !.testsuites = << >>]]

\* `report` is passed by reference; the result carries the report as the
\* call leaves it (the code only reads it).
check_name(platform_name, rep) ==
    LET s == ScanSuites(rep.testsuites, 1, platform_name, [err_cnt |-> 0, out |-> << >>])
        all_scanned == TRUE     \* the for/else branch always runs: no break
        all_clear == all_scanned /\ s.err_cnt = 0
    IN  [ret |-> all_clear, out |-> s.out, err_cnt |-> s.err_cnt, report |-> rep]

---------------------------------------------------------------------------
(* check_version_consistent *)

check_version_consistent(rep, version) ==
    IF rep.zephyr_version = version
    THEN [ret |-> TRUE, out |-> << >>]
    ELSE [ret |-> FALSE, out |-> <<PlainLine(MsgVersionNotFound)>>]

---------------------------------------------------------------------------
(* The inputs a run can meet *)

MiB == Kibi * Kibi

Platforms == {"qemu_x86", "qemu_x64"}
Stems     == {"qemu_x86"}
Suffixes  == {".json", ".txt"}
Versions  == {"v3.5.0", "v3.4.0"}
Sizes     == {(5 * MiB) \div 2, 5 * MiB, 5 * MiB + 1, 6 * MiB}
Limits    == {Rat(5, 1), Rat(5, 2)}     \* -S 5 (the default) and -S 2.5

SuiteName(i) == IF i = 1 THEN "suite1" ELSE IF i = 2 THEN "suite2" ELSE "suiteN"

SuiteLists ==
    UNION {{[i \in 1..n |-> [platform |-> p[i], name |-> SuiteName(i)]] :
                p \in [1..n -> Platforms]} : n \in 0..MaxSuites}

Reports == [testsuites : SuiteLists, zephyr_version : Versions]

EmptyReport == [testsuites |-> << >>, zephyr_version |-> ""]

\* an entry of versions.json: a mapping {"version": value} or a bare string value
Entries == [kind : {"dict"}, value : Versions] \cup [kind : {"str"}, value : {"v3.5.0"}]

Indexes == UNION {[1..n -> Entries] : n \in 0..MaxIndex}

Files ==
    {[exists |-> FALSE, size |-> 0, parseOk |-> FALSE, content |-> EmptyReport]}
    \cup [exists : {TRUE}, size : Sizes, parseOk : {TRUE}, content : Reports]
    \cup [exists : {TRUE}, size : Sizes, parseOk : {FALSE}, content : {EmptyReport}]

Args == [path : [stem : Stems, suffix : Suffixes], zephyr : Versions, max_size : Limits]

Remotes ==
    {[fetchOk |-> FALSE, ver_data |-> << >>]}
    \cup [fetchOk : {TRUE}, ver_data : Indexes]

---------------------------------------------------------------------------
(* main *)

GateOrder == <<"exists", "suffix", "parse", "version_exists", "name",
               "version_consistent", "size">>

\* the statement that follows gate g in main when g passes
NextGateNameFirst(g) ==
    CASE g = "exists"             -> "suffix"
      [] g = "suffix"             -> "parse"
      [] g = "parse"              -> "name"
      [] g = "name"               -> "version_exists"
      [] g = "version_exists"     -> "version_consistent"
      [] g = "version_consistent" -> "size"
      [] g = "size"               -> "verified"

NextGate(g) ==
    CASE g = "exists"             -> "suffix"
      [] g = "suffix"             -> "parse"
      [] g = "parse"              -> "version_exists"
      [] g = "version_exists"     -> "name"
      [] g = "name"               -> "version_consistent"
      [] g = "version_consistent" -> "size"
      [] g = "size"               -> "verified"

\* A missing file that is only reported.
FileMissingNoRaise(o, path) ==
    [out  |-> Append(o, Line(MsgNotFound, path, "", "", "", NoLimit)),
     exit |-> "none", pc |-> "suffix"]

\* print(f"JSON report not found at {file_path}"); raise FileNotFoundError
FileMissing(o, path) ==
    [out  |-> Append(o, Line(MsgNotFound, path, "", "", "", NoLimit)),
     exit |-> "FileNotFoundError", pc |-> "done"]

\* A handler that prints the message and falls through.
AssertionFailedNoExit(o, line) ==
    [out |-> Append(o, line), exit |-> "none", pc |-> "verified"]

\* except AssertionError as ex: print(ex); exit(1)
AssertionFailed(o, line) ==
    [out |-> Append(o, line), exit |-> "1", pc |-> "done"]

MainExists ==
    /\ pc = "exists"
    /\ evaluated' = Append(evaluated, "exists")
    /\ IF ~file.exists
       THEN LET h == FileMissing(out, args.path)
            IN  out' = h.out /\ exit' = h.exit /\ pc' = h.pc
       ELSE pc' = NextGate("exists") /\ UNCHANGED <<out, exit>>
    /\ UNCHANGED <<inputs, report, verRes, nameRes, sizeRes, fetches, run, first>>

MainSuffix ==
    /\ pc = "suffix"
    /\ evaluated' = Append(evaluated, "suffix")
    /\ IF args.path.suffix = ".json"
       THEN pc' = NextGate("suffix") /\ UNCHANGED <<out, exit>>
       ELSE LET h == AssertionFailed(out, PlainLine(MsgNotJson))
            IN  out' = h.out /\ exit' = h.exit /\ pc' = h.pc
    /\ UNCHANGED <<inputs, report, verRes, nameRes, sizeRes, fetches, run, first>>

\* with open(file_path) as f: report = json.load(f); a JSONDecodeError is
\* not an AssertionError and propagates.
MainParse ==
    /\ pc = "parse"
    /\ evaluated' = Append(evaluated, "parse")
    /\ IF file.parseOk
       THEN report' = <<file.content>> /\ pc' = NextGate("parse") /\ exit' = exit
       ELSE report' = report /\ pc' = "done" /\ exit' = "JSONDecodeError"
    /\ UNCHANGED <<inputs, out, verRes, nameRes, sizeRes, fetches, run, first>>

MainVersionExists ==
    /\ pc = "version_exists"
    /\ evaluated' = Append(evaluated, "version_exists")
    /\ fetches' = fetches + 1
    /\ LET r == check_version_exists(args.zephyr, remote)
       IN  /\ verRes' = <<r>>
           /\ IF r.raised # "none"
              THEN pc' = "done" /\ exit' = r.raised /\ out' = out
              ELSE IF r.ret
              THEN pc' = NextGate("version_exists") /\ UNCHANGED <<out, exit>>
              ELSE LET h == AssertionFailed(out, PlainLine(MsgNotListed))
                   IN  out' = h.out /\ exit' = h.exit /\ pc' = h.pc
    /\ UNCHANGED <<inputs, report, nameRes, sizeRes, run, first>>

MainName ==
    /\ pc = "name"
    /\ evaluated' = Append(evaluated, "name")
    /\ LET r == check_name(args.path.stem, report[1])
       IN  /\ nameRes' = <<r>>
           /\ report' = <<r.report>>
           /\ IF r.ret
              THEN pc' = NextGate("name") /\ out' = out \o r.out /\ exit' = exit
              ELSE LET h == AssertionFailed(out \o r.out, PlainLine(MsgName))
                   IN  out' = h.out /\ exit' = h.exit /\ pc' = h.pc
    /\ UNCHANGED <<inputs, verRes, sizeRes, fetches, run, first>>

MainVersionConsistent ==
    /\ pc = "version_consistent"
    /\ evaluated' = Append(evaluated, "version_consistent")
    /\ LET r == check_version_consistent(report[1], args.zephyr)
       IN  IF r.ret
           THEN pc' = NextGate("version_consistent") /\ out' = out \o r.out /\ exit' = exit
           ELSE LET h == AssertionFailed(out \o r.out, PlainLine(MsgVersion))
                IN  out' = h.out /\ exit' = h.exit /\ pc' = h.pc
    /\ UNCHANGED <<inputs, report, verRes, nameRes, sizeRes, fetches, run, first>>

\* assert check_file_size(file_path, args.max_size) / 1024 / 1024, f"Size ..."
MainSize ==
    /\ pc = "size"
    /\ evaluated' = Append(evaluated, "size")
    /\ LET r == check_file_size(file, args.max_size)
           asserted == TrueDiv(TrueDiv(BoolAsNumber(r), Kibi), Kibi)
       IN  /\ sizeRes' = <<r>>
           /\ IF Truthy(asserted)
              THEN pc' = NextGate("size") /\ UNCHANGED <<out, exit>>
              ELSE LET h == AssertionFailed(out,
                               Line(MsgSize, args.path, "", "", "", args.max_size))
                   IN  out' = h.out /\ exit' = h.exit /\ pc' = h.pc
    /\ UNCHANGED <<inputs, report, verRes, nameRes, fetches, run, first>>

\* print(f"Report {args.path} verified."); return 0
MainVerified ==
    /\ pc = "verified"
    /\ out' = Append(out, Line(MsgVerified, args.path, "", "", "", NoLimit))
    /\ exit' = "0"
    /\ pc' = "done"
    /\ UNCHANGED <<inputs, report, verRes, nameRes, sizeRes, fetches, evaluated, run, first>>

\* the script is invoked again on the same file, arguments and index
Rerun ==
    /\ pc = "done"
    /\ run < MaxRuns
    /\ run' = run + 1
    /\ first' = IF first = << >> THEN <<[out |-> out, exit |-> exit]>> ELSE first
    /\ pc' = "exists"
    /\ report' = << >>
    /\ out' = << >>
    /\ exit' = "none"
    /\ evaluated' = << >>
    /\ verRes' = << >>
    /\ nameRes' = << >>
    /\ sizeRes' = << >>
    /\ fetches' = 0
    /\ UNCHANGED inputs

Init ==
    /\ file \in Files
    /\ args \in Args
    /\ remote \in Remotes
    /\ pc = "exists"
    /\ report = << >>
    /\ out = << >>
    /\ exit = "none"
    /\ evaluated = << >>
    /\ verRes = << >>
    /\ nameRes = << >>
    /\ sizeRes = << >>
    /\ fetches = 0
    /\ run = 1
    /\ first = << >>

Next ==
    \/ MainExists
    \/ MainSuffix
    \/ MainParse
    \/ MainVersionExists
    \/ MainName
    \/ MainVersionConsistent
    \/ MainSize
    \/ MainVerified
    \/ Rerun

Spec == Init /\ [][Next]_vars

---------------------------------------------------------------------------
(* Vocabulary of the properties: what the inputs say, stated without the   *)
(* operators above.                                                        *)

Done == pc = "done"

Index == remote.ver_data

IsMatch(i) == Index[i].kind = "dict" /\ Index[i].value = args.zephyr

IsLegacy(i) == Index[i].kind # "dict"

Suites == file.content.testsuites

Mismatching == {i \in 1..Len(Suites) : Suites[i].platform # args.path.stem}

WithinLimit == file.size * args.max_size.d <= args.max_size.n * MiB

VerifiedPrinted == \E i \in 1..Len(out) : out[i].msg = MsgVerified

\* The gates that fail on the inputs of this run, by position in GateOrder.
WouldFail(g) ==
    CASE g = "exists"             -> ~file.exists
      [] g = "suffix"             -> args.path.suffix # ".json"
      [] g = "parse"              -> ~file.parseOk
      [] g = "version_exists"     -> ~check_version_exists(args.zephyr, remote).ret
      [] g = "name"               -> Mismatching # {}
      [] g = "version_consistent" -> file.content.zephyr_version # args.zephyr
      [] g = "size"               -> ~WithinLimit

Failing == {i \in 1..Len(GateOrder) : WouldFail(GateOrder[i])}

Earliest == CHOOSE i \in Failing : \A j \in Failing : i <= j

\* the failure reason printed for gate g (nothing on standard output when the
\* gate ends in an uncaught JSONDecodeError or URLError)
Reason(g) ==
    CASE g = "exists"             -> <<MsgNotFound>>
      [] g = "suffix"             -> <<MsgNotJson>>
      [] g = "parse"              -> << >>
      [] g = "version_exists"     -> IF remote.fetchOk THEN <<MsgNotListed>> ELSE << >>
      [] g = "name"               -> <<MsgName>>
      [] g = "version_consistent" -> <<MsgVersion>>
      [] g = "size"               -> <<MsgSize>>

ReasonMsgs == {MsgNotFound, MsgNotJson, MsgNotListed, MsgName, MsgVersion, MsgSize}

IsReason(l) == l.msg \in ReasonMsgs

ReasonsPrinted == [i \in 1..Len(SelectSeq(out, IsReason)) |-> SelectSeq(out, IsReason)[i].msg]

AssertionGates == {"suffix", "version_exists", "name", "version_consistent", "size"}

\* this run ended in one of the five assertion failures
AssertionFailure ==
    /\ Done
    /\ Failing # {}
    /\ GateOrder[Earliest] \in AssertionGates
    /\ GateOrder[Earliest] = "version_exists" => remote.fetchOk

---------------------------------------------------------------------------
(* C1 *)

\* C1 (as stated): once check_version_exists has returned on a fetched index,
\* its result is true iff some mapping entry of the index has version equal
\* to the expected version, whatever legacy string entries surround it, and
\* no error propagates.
C1_TrueIffSomeEntryMatches ==
    (verRes # << >> /\ remote.fetchOk) =>
        /\ verRes[1].raised = "none"
        /\ verRes[1].ret = (\E i \in 1..Len(Index) : IsMatch(i))

\* C1 (amended): the result is true iff some mapping entry has the expected
\* version and no legacy string entry is more recent than it; legacy entries
\* never make an error propagate.
C1_TrueIffMatchNewerThanLegacy ==
    (verRes # << >> /\ remote.fetchOk) =>
        /\ verRes[1].raised = "none"
        /\ verRes[1].ret = (\E i \in 1..Len(Index) :
                                /\ IsMatch(i)
                                /\ \A j \in (i + 1)..Len(Index) : ~IsLegacy(j))

\* a mixed index whose match is more recent than a legacy entry was scanned
C1_Witness ==
    /\ verRes # << >>
    /\ remote.fetchOk
    /\ verRes[1].ret
    /\ \E i, j \in 1..Len(Index) : i < j /\ IsLegacy(i) /\ IsMatch(j)

---------------------------------------------------------------------------
(* C10 *)

StopPoints == {i \in 1..Len(Index) : IsLegacy(i) \/ IsMatch(i)}

LastStop == CHOOSE i \in StopPoints : \A j \in StopPoints : j <= i

\* C10: the scan runs from the last entry towards the first and ends at the
\* first entry that matches (true) or is a legacy string (false, no error
\* propagated); entries older than that one are not examined.
C10_ScanStopsAtFirstMatchOrLegacy ==
    (verRes # << >> /\ remote.fetchOk) =>
        /\ verRes[1].raised = "none"
        /\ IF StopPoints = {}
           THEN /\ ~verRes[1].ret
                /\ verRes[1].examined = Len(Index)
                /\ ~verRes[1].caught
           ELSE /\ verRes[1].ret = IsMatch(LastStop)
                /\ verRes[1].caught = IsLegacy(LastStop)
                /\ verRes[1].examined = Len(Index) - LastStop + 1

\* a legacy entry was reached while an older entry held the expected version
C10_Witness ==
    /\ verRes # << >>
    /\ remote.fetchOk
    /\ ~verRes[1].ret
    /\ verRes[1].caught
    /\ verRes[1].examined < Len(Index)
    /\ \E i \in 1..Len(Index) : IsMatch(i)

---------------------------------------------------------------------------
(* C2 *)

\* C2: the gates are evaluated in the order of GateOrder and the run stops at
\* the earliest gate that fails on its inputs: no later gate is evaluated,
\* that gate's message is the only failure reason printed, the index is not
\* fetched when an earlier gate fails and no platform diagnostic is printed
\* when a gate before the name gate fails.
C2_GatesInOrderStopAtFirstFailure ==
    /\ Len(evaluated) <= Len(GateOrder)
    /\ \A i \in 1..Len(evaluated) : evaluated[i] = GateOrder[i]
    /\ fetches = Cardinality({i \in 1..Len(evaluated) : evaluated[i] = "version_exists"})
    /\ Failing # {} =>
        /\ Len(evaluated) <= Earliest
        /\ exit # "0"
        /\ ~VerifiedPrinted
        /\ Earliest < 4 => fetches = 0 /\ verRes = << >>
        /\ Earliest < 5 => \A i \in 1..Len(out) : out[i].msg # MsgPlatform
        /\ Earliest < 6 => \A i \in 1..Len(out) : out[i].msg # MsgVersionNotFound
        /\ Done => /\ Len(evaluated) = Earliest
                   /\ ReasonsPrinted = Reason(GateOrder[Earliest])
    /\ (Done /\ Failing = {}) => (evaluated = GateOrder /\ ReasonsPrinted = << >>)

\* a run whose version gate failed although later gates would fail too
C2_Witness ==
    /\ Done
    /\ exit = "1"
    /\ Earliest = 4
    /\ Cardinality(Failing) >= 3

---------------------------------------------------------------------------
(* C3 *)

\* C3: the size gate passes iff size/1024/1024 <= limit; when it is reached
\* and the report is larger than the limit the run ends with exit status 1
\* and the size message, never with the verified message, and otherwise
\* the report is verified.
C3_SizeGate ==
    /\ sizeRes # << >> => sizeRes[1] = WithinLimit
    /\ (Done /\ Len(evaluated) = Len(GateOrder)) =>
          IF WithinLimit
          THEN exit = "0" /\ VerifiedPrinted
          ELSE /\ exit = "1"
               /\ out = <<Line(MsgSize, args.path, "", "", "", args.max_size)>>
               /\ ~VerifiedPrinted

\* a 6 MiB report checked against the default limit of 5
C3_Witness ==
    /\ Done
    /\ Len(evaluated) = Len(GateOrder)
    /\ file.size = 6 * MiB
    /\ args.max_size = Rat(5, 1)
    /\ exit = "1"

---------------------------------------------------------------------------
(* C4 *)

PlatformsMatch == \A i \in 1..Len(Suites) : Suites[i].platform = args.path.stem

\* C4 (as stated): a finished run has printed the verified message and
\* ended with status 0 iff the file exists, its suffix is .json, the
\* expected version is in the remote index, every platform equals the stem,
\* the report's zephyr_version is the expected one and the size is within
\* the limit.
C4_VerifiedIffListedConditions ==
    Done =>
        ((VerifiedPrinted /\ exit = "0") <=>
            /\ file.exists
            /\ args.path.suffix = ".json"
            /\ \E i \in 1..Len(Index) : IsMatch(i)
            /\ PlatformsMatch
            /\ file.content.zephyr_version = args.zephyr
            /\ WithinLimit)

Verifiable ==
    /\ file.exists
    /\ args.path.suffix = ".json"
    /\ file.parseOk
    /\ remote.fetchOk
    /\ \E i \in 1..Len(Index) :
            IsMatch(i) /\ \A j \in (i + 1)..Len(Index) : ~IsLegacy(j)
    /\ PlatformsMatch
    /\ file.content.zephyr_version = args.zephyr
    /\ WithinLimit

\* C4 (amended): as stated, with "the expected version is in the remote
\* index" read as the version gate reads it: the report parses, the index is
\* fetched, and the expected version is the version of a mapping entry that
\* no legacy string entry follows.  The verified message is printed in no
\* other run.
C4_VerifiedIffEveryGatePasses ==
    /\ VerifiedPrinted => (Verifiable /\ exit = "0")
    /\ exit = "0" => VerifiedPrinted
    /\ Done => ((VerifiedPrinted /\ exit = "0") <=> Verifiable)

\* a verified run against an index that still holds a legacy entry
C4_Witness ==
    /\ Done
    /\ exit = "0"
    /\ VerifiedPrinted
    /\ \E i \in 1..Len(Index) : IsLegacy(i)

---------------------------------------------------------------------------
(* C5 *)

\* C5 (as stated): every assertion failure ends with exit status 1 and
\* exactly one printed line.
C5_ExitOneSingleLine ==
    AssertionFailure => (exit = "1" /\ Len(out) = 1)

\* C5 (amended): every assertion failure ends with exit status 1 and its
\* assertion message as the last printed line; that is the only line for
\* wrong-extension, version-not-listed and size-exceeded, it follows one
\* diagnostic line per mismatching suite for platform-mismatch, and it
\* follows "Version not found." for version-mismatch.
C5_ExitOneMessageLast ==
    AssertionFailure =>
        LET g == GateOrder[Earliest] IN
        /\ exit = "1"
        /\ Len(out) >= 1
        /\ <<out[Len(out)].msg>> = Reason(g)
        /\ g \in {"suffix", "version_exists", "size"} => Len(out) = 1
        /\ g = "name" =>
              /\ Len(out) = Cardinality(Mismatching) + 1
              /\ \A i \in 1..(Len(out) - 1) : out[i].msg = MsgPlatform
        /\ g = "version_consistent" =>
              /\ Len(out) = 2
              /\ out[1].msg = MsgVersionNotFound

\* a version-mismatch failure
C5_Witness ==
    /\ AssertionFailure
    /\ GateOrder[Earliest] = "version_consistent"
    /\ exit = "1"

---------------------------------------------------------------------------
(* C6 *)

\* C6: when the report path does not exist the run ends with
\* FileNotFoundError after the existence test alone: no suffix check, no
\* parse, no fetch and no later gate.
C6_MissingFileStopsFirst ==
    ~file.exists =>
        /\ pc \in {"exists", "done"}
        /\ Len(evaluated) <= 1
        /\ \A i \in 1..Len(evaluated) : evaluated[i] = "exists"
        /\ report = << >>
        /\ fetches = 0
        /\ verRes = << >> /\ nameRes = << >> /\ sizeRes = << >>
        /\ exit \in {"none", "FileNotFoundError"}
        /\ Done => /\ exit = "FileNotFoundError"
                   /\ out = <<Line(MsgNotFound, args.path, "", "", "", NoLimit)>>

\* a run on a missing report has ended
C6_Witness ==
    /\ ~file.exists
    /\ Done
    /\ exit = "FileNotFoundError"

---------------------------------------------------------------------------
(* C7 *)

AllDiffer == \A i \in 1..Len(Suites) : Suites[i].platform # args.path.stem

\* C7 (as stated): when the stem differs from every testsuite's platform,
\* check_name returns false and prints one diagnostic per mismatching suite.
C7_AllDifferGivesFalse ==
    (nameRes # << >> /\ AllDiffer) =>
        /\ ~nameRes[1].ret
        /\ Len(nameRes[1].out) = Cardinality(Mismatching)

\* C7 (amended): when the report has at least one testsuite and the stem
\* differs from every testsuite's platform, check_name returns false and
\* prints exactly one diagnostic line per suite, in order, each naming the
\* suite, its platform and the required one.
C7_NonEmptyAllDifferGivesFalse ==
    (nameRes # << >> /\ AllDiffer /\ Len(Suites) > 0) =>
        /\ ~nameRes[1].ret
        /\ Len(nameRes[1].out) = Len(Suites)
        /\ \A i \in 1..Len(Suites) :
              nameRes[1].out[i] =
                  Line(MsgPlatform, NoPath, Suites[i].platform, Suites[i].name,
                       args.path.stem, NoLimit)

\* check_name ran on two suites, both of another platform
C7_Witness ==
    /\ nameRes # << >>
    /\ Len(Suites) = 2
    /\ AllDiffer
    /\ ~nameRes[1].ret

---------------------------------------------------------------------------
(* C8 *)

\* C8: when the stem equals every testsuite's platform (an empty list
\* included) check_name returns true and prints nothing; in general it
\* returns true exactly when the mismatch counter is zero, and the counter is
\* the number of mismatching suites.
C8_AllEqualGivesTrue ==
    nameRes # << >> =>
        /\ PlatformsMatch => (nameRes[1].ret /\ nameRes[1].out = << >>)
        /\ nameRes[1].ret <=> (nameRes[1].err_cnt = 0)
        /\ nameRes[1].err_cnt = Cardinality(Mismatching)

\* check_name ran on a report with no testsuite
C8_Witness ==
    /\ nameRes # << >>
    /\ Suites = << >>
    /\ nameRes[1].ret

---------------------------------------------------------------------------
(* C9 *)

\* C9: no step of a run changes the report file, the configuration or the
\* remote index, the parsed report stays what the file holds, and a run
\* repeated on the same inputs ends with the exit code and the output of
\* the first.
C9_RerunSameOutcomeInputsUntouched ==
    [][/\ inputs' = inputs
       /\ report' # << >> => report'[1] = file'.content
       /\ (pc' = "done" /\ first' # << >>) =>
              (out' = first'[1].out /\ exit' = first'[1].exit)]_vars

\* a second run ended after printing platform diagnostics
C9_Witness ==
    /\ run = 2
    /\ Done
    /\ first # << >>
    /\ exit = "1"
    /\ Len(out) >= 2

====
